---- MODULE Spec2Model ----
(***************************************************************************)
(* Model of scripts/mls_pdf_to_photos.py: extract the embedded images of a *)
(* PDF, order them for upload, POST each one with bounded retries and      *)
(* linear back-off, then PATCH the listing status once.                    *)
(*                                                                         *)
(* Strings are modelled by their origin and their length: Str("body", n)   *)
(* is the first n characters of the response body, Str("exc", n) the       *)
(* string form of an exception; every string of length 0 is EmptyStr.      *)
(* SHA-256 is modelled as an injective function of the hashed bytes.       *)
(***************************************************************************)
EXTENDS Integers, Sequences, FiniteSets, TLC

\* ------------------------------------------------------------------ bounds
\* pages of a document, embedded images of a page, distinct image contents
MaxPages == 2
MaxImgsPerPage == 2
NumContents == 2
\* the same for the documents a whole run of main is tried on
MainPages == 2
MainImgsPerPage == 1
\* the largest --retries value tried; direct calls of upload_photo try one more
MaxRetries == 2
\* the longest list handed to order_for_upload directly
MaxList == 3

\* ------------------------------------------------------- program constants
\* response.text[:500]
TextLimit == 500
\* "status = response.status_code if response else 0"
NoStatus == 0
\* --min-photos default
MinPhotosDefault == 5

Min(a, b) == IF a < b THEN a ELSE b
Max(a, b) == IF a > b THEN a ELSE b

\* ------------------------------------------------------------------ strings
Str(src, n) == [src |-> IF n = 0 THEN "" ELSE src, len |-> n]
EmptyStr == Str("", 0)
UnreachableStr == Str("unreachable", 11)
\* s[:k]
Slice(s, k) == Str(s.src, Min(s.len, k))

\* ------------------------------------------------------------- HTTP server
\* What one session.post / session.patch call can do: return a response with
\* a status code and a body, or raise.
StatusCodes == {199, 200, 299, 300, 404, 500}
\* The body the server sends with each status: empty, short, exactly
\* TextLimit characters, and longer than TextLimit.
BodyLen(s) ==
  CASE s = 199 -> 0
    [] s = 404 -> TextLimit
    [] s = 500 -> TextLimit + 1
    [] OTHER -> 3
Responses ==
  {[kind |-> "response", status |-> s, text |-> Str("body", BodyLen(s))] :
     s \in StatusCodes}
Exceptions == {[kind |-> "exception", status |-> NoStatus, text |-> Str("exc", 7)]}
Outcomes == Responses \cup Exceptions
NoneResponse == [kind |-> "None", status |-> NoStatus, text |-> EmptyStr]

\* mutant: 300 is taken for a success ("<= 300")
Is2xxInclusive(s) == 200 <= s /\ s <= 300
\* 200 <= response.status_code < 300
Is2xx(s) == 200 <= s /\ s < 300

\* bool(response) in "response.status_code if response else 0": None is
\* falsy, and a requests.Response is truthy exactly when response.ok, that is
\* unless 400 <= status_code < 600.
Truthy(r) == r.kind = "response" /\ ~(400 <= r.status /\ r.status < 600)

\* ---------------------------------------------------------------- documents
\* doc.extract_image(xref): the bytes of an embedded image (identified by a
\* content number), its extension and its declared pixel size.  Identical
\* bytes decode to the same image, hence the same size.
Shapes == << <<800, 600>>, <<600, 900>>, <<600, 600>>, <<800, 600>> >>
ShapeOf(c) == Shapes[((c - 1) % Len(Shapes)) + 1]
Base(c) == [image |-> c, ext |-> "jpeg", width |-> ShapeOf(c)[1], height |-> ShapeOf(c)[2]]
Contents == 1..NumContents

SeqsUpTo(S, n) == UNION {[1..k -> S] : k \in 0..n}
\* page.get_images(full=True) of every page, in document order
Pages == SeqsUpTo(Contents, MaxImgsPerPage)
Docs == SeqsUpTo(Pages, MaxPages)
MainDocs == SeqsUpTo(SeqsUpTo(Contents, MainImgsPerPage), MainPages)

\* ---------------------------------------------------------------- helpers
\* hashlib.sha256 over the file's bytes
hash_file(bytes) == <<"sha256", bytes>>

\* f"page{page_index + 1:02d}_img{img_index + 1:02d}.{ext}"
\* mutant: the in-page index is left out of the file name
file_name_per_page(page_index_, img_index_, ext) == <<"page", page_index_ + 1, "img", 1, ext>>
file_name(page_index_, img_index_, ext) == <<"page", page_index_ + 1, "img", img_index_ + 1, ext>>

ExtractedImage(path, width, height, page_index_, img_index_) ==
  [path |-> path, width |-> width, height |-> height, area |-> width * height,
   page_index |-> page_index_, img_index |-> img_index_]

\* out_path.write_bytes(binary): the directory is a set of <<name, bytes>>
WriteBytes(dir, name, bytes) == {f \in dir : f[1] # name} \cup {<<name, bytes>>}
\* out_path.unlink(missing_ok=True)
Unlink(dir, name) == {f \in dir : f[1] # name}
ReadBytes(dir, name) == (CHOOSE f \in dir : f[1] = name)[2]

\* mutant: the digest of a kept image is never added to seen_hashes
ExtractBodyForgetsHash(st, page_index_, img_index_, c) ==
  LET base == Base(c)
      out_path == file_name(page_index_, img_index_, base.ext)
      written == WriteBytes(st.files, out_path, base.image)
      digest == hash_file(ReadBytes(written, out_path))
  IN IF digest \in st.seen_hashes
       THEN [st EXCEPT !.files = Unlink(written, out_path)]
       ELSE [images |-> Append(st.images,
                         ExtractedImage(out_path, base.width, base.height,
                                        page_index_, img_index_)),
             seen_hashes |-> st.seen_hashes,
             files |-> written]

\* The body of the inner loop of extract_images for the embedded image c at
\* (page_index_, img_index_), on st = [images, seen_hashes, files].
ExtractBody(st, page_index_, img_index_, c) ==
  LET base == Base(c)
      out_path == file_name(page_index_, img_index_, base.ext)
      written == WriteBytes(st.files, out_path, base.image)
      digest == hash_file(ReadBytes(written, out_path))
  IN IF digest \in st.seen_hashes
       THEN [st EXCEPT !.files = Unlink(written, out_path)]
       ELSE [images |-> Append(st.images,
                         ExtractedImage(out_path, base.width, base.height,
                                        page_index_, img_index_)),
             seen_hashes |-> st.seen_hashes \cup {digest},
             files |-> written]

EmptyExtraction == [images |-> <<>>, seen_hashes |-> {}, files |-> {}]

RECURSIVE ExtractFrom(_, _, _, _)
ExtractFrom(st, d, p, i) ==
  IF p >= Len(d) THEN st
  ELSE IF i >= Len(d[p + 1]) THEN ExtractFrom(st, d, p + 1, 0)
  ELSE ExtractFrom(ExtractBody(st, p, i, d[p + 1][i + 1]), d, p, i + 1)

\* extract_images(pdf_path, output_dir), as one call
extract_images(d) == ExtractFrom(EmptyExtraction, d, 0, 0)

\* ---------------------------------------------------------------- ordering
\* mutant: a square image is classed as portrait ("img.width > img.height")
sort_key_square_portrait(img) ==
  << IF img.width > img.height THEN 0 ELSE 1, -img.area, img.page_index >>
\* mutant: the page index is left out of the key
sort_key_without_page(img) ==
  << IF img.width >= img.height THEN 0 ELSE 1, -img.area, 0 >>
\* mutant: the area is not negated, the smallest image comes first
sort_key_smallest_first(img) ==
  << IF img.width >= img.height THEN 0 ELSE 1, img.area, img.page_index >>
\* (is_landscape, -img.area, img.page_index)
sort_key_for_cover(img) ==
  << IF img.width >= img.height THEN 0 ELSE 1, -img.area, img.page_index >>

\* Python's tuple comparison k1 < k2 on triples of integers
TupleLess(k1, k2) ==
  \/ k1[1] < k2[1]
  \/ k1[1] = k2[1] /\ k1[2] < k2[2]
  \/ k1[1] = k2[1] /\ k1[2] = k2[2] /\ k1[3] < k2[3]

\* sorted(xs, key=sort_key_for_cover): a stable sort, so x goes after every
\* element already placed whose key is not greater than x's.
RECURSIVE InsertStable(_, _)
InsertStable(x, s) ==
  IF s = <<>> THEN <<x>>
  ELSE IF TupleLess(sort_key_for_cover(x), sort_key_for_cover(Head(s)))
    THEN <<x>> \o s
    ELSE <<Head(s)>> \o InsertStable(x, Tail(s))

RECURSIVE SortedByKey(_)
SortedByKey(s) ==
  IF s = <<>> THEN <<>>
  ELSE InsertStable(s[Len(s)], SortedByKey(SubSeq(s, 1, Len(s) - 1)))

order_for_upload(imgs) == IF imgs = <<>> THEN <<>> ELSE SortedByKey(imgs)

\* -------------------------------------------------------------------- state
VARIABLES
  pc,            \* where the run is
  \* extract_images
  doc,           \* the embedded images of each page of the PDF
  page_index,    \* enumerate(doc)
  img_index,     \* enumerate(page.get_images(full=True))
  images,        \* images: List[ExtractedImage]
  seen_hashes,   \* seen_hashes: set[str]
  files,         \* the output directory
  \* order_for_upload
  shuffled,      \* a second argument list, a permutation of images
  ordered,       \* order_for_upload(images)
  ordered2,      \* order_for_upload(shuffled)
  \* command line
  pdf_exists,    \* pdf_path.exists()
  retries,       \* args.retries
  min_photos,    \* args.min_photos
  use_is_cover,  \* args.use_is_cover (False with --no-cover-flag)
  use_ordering,  \* args.use_ordering (False with --no-ordering)
  \* upload_photo
  idx,           \* index
  max_retries,   \* max_retries
  attempt,       \* attempt
  response,      \* response (NoneResponse: None or not yet bound)
  error,         \* error
  ret,           \* the returned (success, status, error)
  \* what the network and the clock saw
  posts,         \* POST requests of the current upload_photo call
  failed,        \* how many of them failed (non-2xx or exception)
  sleeps,        \* time.sleep arguments of the current call, in order
  seen_status,   \* status of the last response received in the current call
  net,           \* every POST, sleep and PATCH of the run, in order
  sent,          \* the file and the form data of every POST, in order
  trial,         \* a second run of the uploads against the same server answers
  \* main
  success_count, \* success_count
  oks,           \* ok of each finished upload_photo call, in order
  summary,       \* which summary line was printed
  patch_ret,     \* the (ok, status, error) of patch_listing_status
  exit_code      \* main's result: 0, 1 (SystemExit with a message), -1 running

extractVars == <<doc, page_index, img_index, images, seen_hashes, files>>
orderVars == <<shuffled, ordered, ordered2>>
argVars == <<pdf_exists, retries, min_photos, use_is_cover, use_ordering>>
callVars == <<idx, max_retries, attempt, response, error, ret>>
obsVars == <<posts, failed, sleeps, seen_status>>
mainVars == <<success_count, oks, summary, patch_ret, exit_code>>
vars == <<pc, extractVars, orderVars, argVars, callVars, obsVars, net, sent, trial, mainVars>>

Event(op, arg) == [op |-> op, arg |-> arg]
Result(ok, status, err) == [ok |-> ok, status |-> status, error |-> err]
NoResult == Result(FALSE, -1, Str("pending", 1))

\* A second run of the upload loop against a server that answers as it did in
\* the first: mode "off" (one run, the server answers freely), "record" (the
\* first of two runs, its answers are written to script) or "replay" (the
\* second run, answered from script).  rets keeps the (ok, status, error) of
\* every finished call of the current run, first the first run's observations.
NoTrial == [mode |-> "off", script |-> <<>>, cursor |-> 0, rets |-> <<>>, first |-> <<>>]
ScriptOutcomes == {o \in Outcomes : o.kind = "exception" \/ o.status \in {200, 300, 404}}
ServerOutcomes ==
  CASE trial.mode = "replay" /\ trial.cursor < Len(trial.script)
         -> {trial.script[trial.cursor + 1]}
    [] trial.mode \in {"record", "replay"} -> ScriptOutcomes
    [] OTHER -> Outcomes
Served(o) ==
  CASE trial.mode = "record" -> [trial EXCEPT !.script = Append(@, o)]
    [] trial.mode = "replay" -> [trial EXCEPT !.cursor = @ + 1]
    [] OTHER -> trial
Returned(r) ==
  IF trial.mode = "off" THEN trial ELSE [trial EXCEPT !.rets = Append(@, r)]

\* ------------------------------------------------------------- upload_photo
\* str(index) of a non-negative index
Digits == <<"0", "1", "2", "3", "4", "5", "6", "7", "8", "9">>
RECURSIVE IntToStr(_)
IntToStr(n) == IF n < 10 THEN Digits[n + 1] ELSE IntToStr(n \div 10) \o Digits[(n % 10) + 1]
\* mutant: the position is sent one-based
OrderFieldOneBased(index) == IntToStr(index + 1)
\* data["order"] = str(index)
OrderField(index) == IntToStr(index)
\* data["isCover"] = "true" if is_cover else "false"
CoverField(is_cover) == IF is_cover THEN "true" ELSE "false"
\* mutant: isCover is sent whatever the toggle says
FormKeysAlwaysCover(use_is_cover_, use_ordering_) ==
  {"isCover"} \cup (IF use_ordering_ THEN {"order"} ELSE {})
\* "if use_is_cover:" / "if use_ordering:"
FormKeys(use_is_cover_, use_ordering_) ==
  (IF use_is_cover_ THEN {"isCover"} ELSE {}) \cup (IF use_ordering_ THEN {"order"} ELSE {})
\* _post: data: Dict[str, str]
FormData(is_cover, index, use_is_cover_, use_ordering_) ==
  [k \in FormKeys(use_is_cover_, use_ordering_) |->
     IF k = "isCover" THEN CoverField(is_cover) ELSE OrderField(index)]
\* main: "is_cover=(idx == 0)"
IsCoverArg(idx_) == idx_ = 0
\* _post: files = {"file": (photo.path.name, handle, photo.mime)}, data=data
Request(photos, index) ==
  [file |-> IF index + 1 \in DOMAIN photos THEN photos[index + 1].path ELSE <<>>,
   data |-> FormData(IsCoverArg(index), index, use_is_cover, use_ordering)]

\* mutant: the loop test lets one more pass in ("while attempt <= max_retries")
LoopContinuesInclusive(attempt_, max_retries_) == attempt_ <= max_retries_
\* "while attempt < max_retries"
LoopContinues(attempt_, max_retries_) == attempt_ < max_retries_
\* mutant: the exhaustion test is off by one ("if attempt > max_retries")
AttemptsExhaustedLate(attempt_, max_retries_) == attempt_ > max_retries_
\* mutant: the exhaustion test never holds
AttemptsNeverExhausted(attempt_, max_retries_) == FALSE
\* "if attempt >= max_retries"
AttemptsExhausted(attempt_, max_retries_) == attempt_ >= max_retries_
\* mutant: a constant delay ("time.sleep(1)")
BackoffDelayConstant(attempt_) == 1
\* "time.sleep(attempt)"
BackoffDelay(attempt_) == attempt_
\* "status = response.status_code if response else 0"
FinalStatus(response_) == IF Truthy(response_) THEN response_.status ELSE NoStatus
\* "error = response.text[:500]" / "error = str(exc)"
ErrorText(o) == IF o.kind = "response" THEN Slice(o.text, TextLimit) ELSE o.text

\* "except Exception as exc" around _post(): everything session.post raises
\* is an Exception
UploadCatches(o) == o.kind = "exception"

\* One pass through "while attempt < max_retries": either the loop test
\* fails and the function falls through to return False, 0, "unreachable", or
\* attempt += 1, _post(), the 2xx test, the except branch and the exhaustion
\* test, up to the return or the sleep.  An exception the except clause does
\* not catch leaves upload_photo and main.
UploadAttempt ==
  /\ pc = "while"
  /\ IF ~LoopContinues(attempt, max_retries)
       THEN /\ ret' = Result(FALSE, NoStatus, UnreachableStr)
            /\ pc' = "returned"
            /\ UNCHANGED <<attempt, response, error, obsVars, net, sent, trial, exit_code>>
       ELSE \E o \in ServerOutcomes :
         LET a == attempt + 1
             success == o.kind = "response" /\ Is2xx(o.status)
             resp == IF o.kind = "response" THEN o ELSE NoneResponse
         IN /\ attempt' = a
            /\ posts' = posts + 1
            /\ net' = Append(net, Event("POST", idx))
            /\ sent' = Append(sent, Request(ordered, idx))
            /\ trial' = Served(o)
            /\ seen_status' = IF o.kind = "response" THEN o.status ELSE seen_status
            /\ UNCHANGED sleeps
            /\ IF success
                 THEN /\ response' = resp
                      /\ ret' = Result(TRUE, o.status, EmptyStr)
                      /\ pc' = "returned"
                      /\ UNCHANGED <<error, failed, exit_code>>
                 ELSE IF o.kind = "exception" /\ ~UploadCatches(o)
                 THEN /\ failed' = failed + 1
                      /\ pc' = "crashed"
                      /\ exit_code' = 1
                      /\ UNCHANGED <<response, error, ret>>
                 ELSE /\ response' = resp
                      /\ error' = ErrorText(o)
                      /\ failed' = failed + 1
                      /\ UNCHANGED exit_code
                      /\ IF AttemptsExhausted(a, max_retries)
                           THEN /\ ret' = Result(FALSE, FinalStatus(resp), ErrorText(o))
                                /\ pc' = "returned"
                           ELSE /\ pc' = "sleep"
                                /\ UNCHANGED ret
  /\ UNCHANGED <<idx, max_retries>>
  /\ UNCHANGED <<extractVars, orderVars, argVars>>
  /\ UNCHANGED <<success_count, oks, summary, patch_ret>>

\* "time.sleep(attempt)  # simple back-off", then back to the loop test
UploadSleep ==
  /\ pc = "sleep"
  /\ sleeps' = Append(sleeps, BackoffDelay(attempt))
  /\ net' = Append(net, Event("SLEEP", BackoffDelay(attempt)))
  /\ pc' = "while"
  /\ UNCHANGED <<callVars, posts, failed, seen_status, sent, trial>>
  /\ UNCHANGED <<extractVars, orderVars, argVars, mainVars>>

\* A direct call upload_photo(..., index=i, max_retries=m), m of either sign
DirectRetries == (0 - 1)..(MaxRetries + 1)
InitUpload ==
  /\ pc = "while"
  /\ doc = <<>> /\ page_index = 0 /\ img_index = 0
  /\ images = <<>> /\ seen_hashes = {} /\ files = {}
  /\ shuffled = <<>> /\ ordered = <<>> /\ ordered2 = <<>>
  /\ pdf_exists = TRUE /\ retries = 0 /\ min_photos = 0
  /\ use_is_cover \in BOOLEAN /\ use_ordering \in BOOLEAN
  /\ idx \in {0, 1}
  /\ max_retries \in DirectRetries
  /\ attempt = 0 /\ response = NoneResponse /\ error = EmptyStr /\ ret = NoResult
  /\ posts = 0 /\ failed = 0 /\ sleeps = <<>> /\ seen_status = NoStatus
  /\ net = <<>> /\ sent = <<>> /\ trial = NoTrial
  /\ success_count = 0 /\ oks = <<>> /\ summary = "" /\ patch_ret = NoResult
  /\ exit_code = 0 - 1

NextUpload == UploadAttempt \/ UploadSleep
SpecUpload == InitUpload /\ [][NextUpload]_vars

\* --------------------------------------------------------------------- main
\* mutant: --retries is passed on as given
RetriesAsGiven(r) == r
\* "max_retries=max(args.retries, 1)"
CoerceRetries(r) == Max(r, 1)
\* mutant: every upload is counted, successful or not
TallyEveryUpload(count, ok) == count + 1
\* mutant: a failed upload clears the tally
TallyClearedByFailure(count, ok) == IF ok THEN count + 1 ELSE 0
\* "if ok: success_count += 1"
Tally(count, ok) == IF ok THEN count + 1 ELSE count
\* "success_count < args.min_photos": the summary line only
BelowMinimum(count, minimum) == count < minimum
\* payload = {"hasPhotos": photo_count > 0, "photoCount": photo_count}
PatchPayload(photo_count) == [hasPhotos |-> photo_count > 0, photoCount |-> photo_count]
\* mutant: session.patch is not inside a try
PatchCatchesNothing(o) == FALSE
\* "except Exception as exc" around session.patch
PatchCatches(o) == o.kind = "exception"
\* the three returns of patch_listing_status
PatchResult(o) ==
  IF o.kind = "response"
    THEN IF Is2xx(o.status) THEN Result(TRUE, o.status, EmptyStr)
         ELSE Result(FALSE, o.status, Slice(o.text, TextLimit))
    ELSE Result(FALSE, NoStatus, o.text)

\* mutant: the empty image list is not checked
NoImagesIgnored(imgs) == FALSE
\* "if not images"
NoImages(imgs) == imgs = <<>>

RetriesArgs == (0 - 1)..MaxRetries
MinPhotosArgs == {1, MinPhotosDefault}
\* neither of --no-cover-flag and --no-ordering, or both
ToggleArgs == {<<TRUE, TRUE>>, <<FALSE, FALSE>>}

Init ==
  /\ pc = "start"
  /\ doc = <<>> /\ page_index = 0 /\ img_index = 0
  /\ images = <<>> /\ seen_hashes = {} /\ files = {}
  /\ shuffled = <<>> /\ ordered = <<>> /\ ordered2 = <<>>
  /\ pdf_exists \in BOOLEAN
  /\ retries \in RetriesArgs
  /\ min_photos \in MinPhotosArgs
  /\ \E t \in ToggleArgs : use_is_cover = t[1] /\ use_ordering = t[2]
  /\ idx = 0 /\ max_retries = 0
  /\ attempt = 0 /\ response = NoneResponse /\ error = EmptyStr /\ ret = NoResult
  /\ posts = 0 /\ failed = 0 /\ sleeps = <<>> /\ seen_status = NoStatus
  /\ net = <<>> /\ sent = <<>> /\ trial = NoTrial
  /\ success_count = 0 /\ oks = <<>> /\ summary = "" /\ patch_ret = NoResult
  /\ exit_code = 0 - 1

\* "if not pdf_path.exists(): raise SystemExit(...)"
MainCheckPdf ==
  /\ pc = "start"
  /\ IF pdf_exists
       THEN pc' = "extract" /\ UNCHANGED exit_code
       ELSE pc' = "exit" /\ exit_code' = 1
  /\ UNCHANGED <<extractVars, orderVars, argVars, callVars, obsVars, net, sent, trial>>
  /\ UNCHANGED <<success_count, oks, summary, patch_ret>>

\* "images = extract_images(pdf_path, output_dir)" on any document, then
\* "if not images: raise SystemExit(...)"
MainExtract ==
  /\ pc = "extract"
  /\ \E d \in MainDocs :
       LET st == extract_images(d)
       IN /\ images' = st.images
          /\ files' = st.files
          /\ IF NoImages(st.images)
               THEN pc' = "exit" /\ exit_code' = 1
               ELSE pc' = "order" /\ UNCHANGED exit_code
  /\ UNCHANGED <<doc, page_index, img_index, seen_hashes>>
  /\ UNCHANGED <<orderVars, argVars, callVars, obsVars, net, sent, trial>>
  /\ UNCHANGED <<success_count, oks, summary, patch_ret>>

\* "ordered = order_for_upload(images)" ... "success_count = 0"
MainOrder ==
  /\ pc = "order"
  /\ ordered' = order_for_upload(images)
  /\ success_count' = 0
  /\ idx' = 0
  /\ pc' = "for"
  /\ UNCHANGED <<extractVars, shuffled, ordered2, argVars, obsVars, net, sent, trial>>
  /\ UNCHANGED <<max_retries, attempt, response, error, ret>>
  /\ UNCHANGED <<oks, summary, patch_ret, exit_code>>

\* "for idx, image in enumerate(ordered): ok, status, error = upload_photo(...)":
\* the call, up to "attempt = 0"
MainCallUpload ==
  /\ pc = "for"
  /\ idx < Len(ordered)
  /\ max_retries' = CoerceRetries(retries)
  /\ attempt' = 0
  /\ response' = NoneResponse /\ error' = EmptyStr /\ ret' = NoResult
  /\ posts' = 0 /\ failed' = 0 /\ sleeps' = <<>> /\ seen_status' = NoStatus
  /\ pc' = "while"
  /\ UNCHANGED <<extractVars, orderVars, argVars, idx, net, sent, trial, mainVars>>

\* mutant: the loop is left at the first failed upload ("if not ok: break")
MainTallyStopsAtFailure ==
  /\ pc = "returned"
  /\ success_count' = Tally(success_count, ret.ok)
  /\ oks' = Append(oks, ret.ok)
  /\ idx' = IF ret.ok THEN idx + 1 ELSE Len(ordered)
  /\ attempt' = 0
  /\ response' = NoneResponse /\ error' = EmptyStr /\ ret' = NoResult
  /\ posts' = 0 /\ failed' = 0 /\ sleeps' = <<>> /\ seen_status' = NoStatus
  /\ trial' = Returned(ret)
  /\ pc' = "for"
  /\ UNCHANGED <<extractVars, orderVars, argVars, max_retries, net, sent>>
  /\ UNCHANGED <<summary, patch_ret, exit_code>>

\* the rest of the loop body: the progress line and "if ok: success_count += 1".
\* The frame of upload_photo is gone and ok, status, error are dead from here.
MainTally ==
  /\ pc = "returned"
  /\ success_count' = Tally(success_count, ret.ok)
  /\ oks' = Append(oks, ret.ok)
  /\ idx' = idx + 1
  /\ attempt' = 0
  /\ response' = NoneResponse /\ error' = EmptyStr /\ ret' = NoResult
  /\ posts' = 0 /\ failed' = 0 /\ sleeps' = <<>> /\ seen_status' = NoStatus
  /\ trial' = Returned(ret)
  /\ pc' = "for"
  /\ UNCHANGED <<extractVars, orderVars, argVars, max_retries, net, sent>>
  /\ UNCHANGED <<summary, patch_ret, exit_code>>

\* mutant: the status patch is skipped when the tally is below --min-photos
MainSummaryGated ==
  /\ pc = "for"
  /\ idx >= Len(ordered)
  /\ summary' = IF BelowMinimum(success_count, min_photos) THEN "below" ELSE "meets"
  /\ IF BelowMinimum(success_count, min_photos)
       THEN pc' = "done" /\ exit_code' = 0
       ELSE pc' = "patch" /\ UNCHANGED exit_code
  /\ UNCHANGED <<extractVars, orderVars, argVars, callVars, obsVars, net, sent, trial>>
  /\ UNCHANGED <<success_count, oks, patch_ret>>

\* the loop is over: the summary line, which blocks nothing
MainSummary ==
  /\ pc = "for"
  /\ idx >= Len(ordered)
  /\ summary' = IF BelowMinimum(success_count, min_photos) THEN "below" ELSE "meets"
  /\ pc' = "patch"
  /\ UNCHANGED <<extractVars, orderVars, argVars, callVars, obsVars, net, sent, trial>>
  /\ UNCHANGED <<success_count, oks, patch_ret, exit_code>>

\* "patch_listing_status(..., photo_count=success_count, ...)", its report,
\* and "return 0"
MainPatch ==
  /\ pc = "patch"
  /\ \E o \in Outcomes :
       /\ net' = Append(net, Event("PATCH", PatchPayload(success_count)))
       /\ IF o.kind = "exception" /\ ~PatchCatches(o)
            THEN pc' = "crashed" /\ exit_code' = 1 /\ UNCHANGED patch_ret
            ELSE pc' = "done" /\ exit_code' = 0 /\ patch_ret' = PatchResult(o)
  /\ UNCHANGED <<extractVars, orderVars, argVars, callVars, obsVars, sent, trial>>
  /\ UNCHANGED <<success_count, oks, summary>>

Next ==
  \/ MainCheckPdf
  \/ MainExtract
  \/ MainOrder
  \/ MainCallUpload
  \/ UploadAttempt
  \/ UploadSleep
  \/ MainTally
  \/ MainSummary
  \/ MainPatch

Spec == Init /\ [][Next]_vars
\* Every HTTP call returns or raises (the timeout fires), time.sleep returns
\* and the interpreter keeps running the program: a step that can be taken
\* is taken.
FairSpec == Spec /\ WF_vars(Next)

\* ------------------------------------------------- the upload loop, twice
\* The loop of main over one ordered list, run once with any toggles and the
\* answers of the server written down, then run again from "success_count = 0"
\* with any toggles against the same answers.
TrialExtraction == extract_images(<< <<1>>, <<2>> >>)
TrialPhotos == order_for_upload(TrialExtraction.images)
Observed ==
  [net |-> net, sent |-> sent, rets |-> trial.rets, oks |-> oks,
   success_count |-> success_count,
   use_is_cover |-> use_is_cover, use_ordering |-> use_ordering]

InitTrial ==
  /\ pc = "for"
  /\ doc = <<>> /\ page_index = 0 /\ img_index = 0
  /\ images = TrialExtraction.images /\ seen_hashes = {} /\ files = TrialExtraction.files
  /\ shuffled = <<>> /\ ordered = TrialPhotos /\ ordered2 = <<>>
  /\ pdf_exists = TRUE /\ retries \in RetriesArgs /\ min_photos = MinPhotosDefault
  /\ use_is_cover \in BOOLEAN /\ use_ordering \in BOOLEAN
  /\ idx = 0 /\ max_retries = 0
  /\ attempt = 0 /\ response = NoneResponse /\ error = EmptyStr /\ ret = NoResult
  /\ posts = 0 /\ failed = 0 /\ sleeps = <<>> /\ seen_status = NoStatus
  /\ net = <<>> /\ sent = <<>> /\ trial = [NoTrial EXCEPT !.mode = "record"]
  /\ success_count = 0 /\ oks = <<>> /\ summary = "" /\ patch_ret = NoResult
  /\ exit_code = 0 - 1

\* the first run's loop is over: keep what it did and start the second run
TrialRestart ==
  /\ pc = "for"
  /\ idx >= Len(ordered)
  /\ trial.mode = "record"
  /\ trial' = [mode |-> "replay", script |-> trial.script, cursor |-> 0,
               rets |-> <<>>, first |-> <<Observed>>]
  /\ use_is_cover' \in BOOLEAN /\ use_ordering' \in BOOLEAN
  /\ success_count' = 0 /\ oks' = <<>> /\ idx' = 0
  /\ net' = <<>> /\ sent' = <<>>
  /\ UNCHANGED <<pc, extractVars, orderVars, pdf_exists, retries, min_photos>>
  /\ UNCHANGED <<max_retries, attempt, response, error, ret, obsVars>>
  /\ UNCHANGED <<summary, patch_ret, exit_code>>

NextTrial ==
  \/ MainCallUpload
  \/ UploadAttempt
  \/ UploadSleep
  \/ MainTally
  \/ TrialRestart
SpecTrial == InitTrial /\ [][NextTrial]_vars

\* ------------------------------------------------- extract_images, stepwise
InitExtract ==
  /\ pc = "extract_loop"
  /\ doc \in Docs
  /\ page_index = 0 /\ img_index = 0
  /\ images = <<>> /\ seen_hashes = {} /\ files = {}
  /\ shuffled = <<>> /\ ordered = <<>> /\ ordered2 = <<>>
  /\ pdf_exists = TRUE /\ retries = 0 /\ min_photos = 0
  /\ use_is_cover = TRUE /\ use_ordering = TRUE
  /\ idx = 0 /\ max_retries = 0
  /\ attempt = 0 /\ response = NoneResponse /\ error = EmptyStr /\ ret = NoResult
  /\ posts = 0 /\ failed = 0 /\ sleeps = <<>> /\ seen_status = NoStatus
  /\ net = <<>> /\ sent = <<>> /\ trial = NoTrial
  /\ success_count = 0 /\ oks = <<>> /\ summary = "" /\ patch_ret = NoResult
  /\ exit_code = 0 - 1

\* one pass through the inner loop body: the next embedded image of the page
ExtractImage ==
  /\ pc = "extract_loop"
  /\ page_index < Len(doc)
  /\ img_index < Len(doc[page_index + 1])
  /\ LET st == ExtractBody([images |-> images, seen_hashes |-> seen_hashes,
                            files |-> files],
                           page_index, img_index, doc[page_index + 1][img_index + 1])
     IN /\ images' = st.images
        /\ seen_hashes' = st.seen_hashes
        /\ files' = st.files
  /\ img_index' = img_index + 1
  /\ UNCHANGED <<pc, doc, page_index>>
  /\ UNCHANGED <<orderVars, argVars, callVars, obsVars, net, sent, trial, mainVars>>

\* the page has no more images: the outer loop takes the next page
ExtractNextPage ==
  /\ pc = "extract_loop"
  /\ page_index < Len(doc)
  /\ img_index >= Len(doc[page_index + 1])
  /\ page_index' = page_index + 1
  /\ img_index' = 0
  /\ UNCHANGED <<pc, doc, images, seen_hashes, files>>
  /\ UNCHANGED <<orderVars, argVars, callVars, obsVars, net, sent, trial, mainVars>>

\* the document has no more pages: "return images"
ExtractReturn ==
  /\ pc = "extract_loop"
  /\ page_index >= Len(doc)
  /\ pc' = "extracted"
  /\ UNCHANGED <<extractVars, orderVars, argVars, callVars, obsVars, net, sent, trial, mainVars>>

NextExtract == ExtractImage \/ ExtractNextPage \/ ExtractReturn
SpecExtract == InitExtract /\ [][NextExtract]_vars

\* ------------------------------------------------ order_for_upload, direct
\* The argument lists: records of distinct positions, in any order.
OrderShapes == { <<800, 600>>, <<600, 800>>, <<600, 600>>, <<600, 900>> }
OrderPositions == { <<0, 0>>, <<0, 1>>, <<1, 0>>, <<1, 1>> }
OrderRecords ==
  {ExtractedImage(file_name(q[1], q[2], "jpeg"), sh[1], sh[2], q[1], q[2]) :
     q \in OrderPositions, sh \in OrderShapes}
Range(s) == {s[k] : k \in 1..Len(s)}
Position(img) == <<img.page_index, img.img_index>>
OrderLists ==
  {s \in SeqsUpTo(OrderRecords, MaxList) :
     \A j, k \in 1..Len(s) : j # k => Position(s[j]) # Position(s[k])}
Reorderings(s) ==
  {t \in [1..Len(s) -> Range(s)] : \A x \in Range(s) : \E k \in 1..Len(s) : t[k] = x}

InitOrder ==
  /\ pc = "sort"
  /\ images \in OrderLists
  /\ shuffled \in Reorderings(images)
  /\ ordered = <<>> /\ ordered2 = <<>>
  /\ doc = <<>> /\ page_index = 0 /\ img_index = 0
  /\ seen_hashes = {} /\ files = {}
  /\ pdf_exists = TRUE /\ retries = 0 /\ min_photos = 0
  /\ use_is_cover = TRUE /\ use_ordering = TRUE
  /\ idx = 0 /\ max_retries = 0
  /\ attempt = 0 /\ response = NoneResponse /\ error = EmptyStr /\ ret = NoResult
  /\ posts = 0 /\ failed = 0 /\ sleeps = <<>> /\ seen_status = NoStatus
  /\ net = <<>> /\ sent = <<>> /\ trial = NoTrial
  /\ success_count = 0 /\ oks = <<>> /\ summary = "" /\ patch_ret = NoResult
  /\ exit_code = 0 - 1

\* order_for_upload on each of the two lists
OrderCall ==
  /\ pc = "sort"
  /\ ordered' = order_for_upload(images)
  /\ ordered2' = order_for_upload(shuffled)
  /\ pc' = "sorted"
  /\ UNCHANGED <<extractVars, shuffled, argVars, callVars, obsVars, net, sent, trial, mainVars>>

NextOrder == OrderCall
SpecOrder == InitOrder /\ [][NextOrder]_vars

\* =================================================================== claims
\* ---------------------------------------------------- upload_photo, direct
\* 1, 2, ..., k
UpTo(k) == [i \in 1..k |-> i]
\* n POSTs of image i with a sleep of 1, 2, ..., n-1 seconds between them
AttemptTrace(i, n) ==
  [j \in 1..(IF n = 0 THEN 0 ELSE 2 * n - 1) |->
     IF j % 2 = 1 THEN Event("POST", i) ELSE Event("SLEEP", j \div 2)]

\* C1: a call with max_retries = N >= 1 whose first k < N attempts fail and
\* whose attempt k+1 gets a 2xx response makes exactly k+1 POSTs, sleeps
\* 1, 2, ..., k seconds between them in that order, and returns
\* (True, that 2xx status, "").
C1_RetryThenSuccess ==
  (pc = "returned" /\ max_retries >= 1 /\ Is2xx(seen_status)) =>
     /\ failed < max_retries
     /\ posts = failed + 1
     /\ sleeps = UpTo(failed)
     /\ net = AttemptTrace(idx, failed + 1)
     /\ ret = Result(TRUE, seen_status, EmptyStr)

\* N = 3, two failures, then a 2xx response
C1_Witness ==
  /\ pc = "returned" /\ max_retries = 3 /\ failed = 2 /\ Is2xx(seen_status)
  /\ sleeps = <<1, 2>> /\ ret.ok

\* C2: a call with max_retries = N >= 1 on which every attempt fails makes
\* exactly N POSTs, sleeps 1, 2, ..., N-1 seconds between them (no sleep after
\* the last attempt) and returns success = False.
C2_AllAttemptsFail ==
  (pc = "returned" /\ max_retries >= 1 /\ failed = posts) =>
     /\ posts = max_retries
     /\ sleeps = UpTo(max_retries - 1)
     /\ net = AttemptTrace(idx, max_retries)
     /\ ret.ok = FALSE

\* N = 3, three failures of which one is an exception and one a response
C2_Witness ==
  /\ pc = "returned" /\ max_retries = 3 /\ failed = 3 /\ posts = 3
  /\ ~ret.ok /\ seen_status # NoStatus /\ response = NoneResponse

\* C3: a call that fails after exhausting its attempts returns the last
\* observed HTTP status code, whatever non-2xx code it is, and 0 only if no
\* attempt received a response; its error text is that of the last attempt.
C3_LastStatusReported ==
  (pc = "returned" /\ max_retries >= 1 /\ ~ret.ok) =>
     /\ ret.status = seen_status
     /\ (ret.status = NoStatus => seen_status = NoStatus)
     /\ ret.error = error

\* --------------------------------------------------------------------- main
Count(S) == Cardinality(S)
\* the PATCH requests and the POST requests of the run so far
PatchEvents == {k \in 1..Len(net) : net[k].op = "PATCH"}
PostEvents == {k \in 1..Len(net) : net[k].op = "POST"}
\* the finished upload_photo calls that returned success = True
Succeeded == {k \in 1..Len(oks) : oks[k]}
\* past both fatal checks and not yet returned
Uploading == pc \in {"order", "for", "while", "sleep", "returned", "summary", "patch"}

\* C4: whatever the uploads did, the body of the PATCH carries photoCount =
\* the number of upload_photo calls that returned success = True, and
\* hasPhotos = TRUE exactly when that number is positive.
C4_PatchBodyCountsSuccesses ==
  \A k \in PatchEvents :
     /\ Len(oks) = Len(ordered)
     /\ net[k].arg.photoCount = Count(Succeeded)
     /\ net[k].arg.hasPhotos = (Count(Succeeded) > 0)

\* two images, one uploaded and one not
C4_Witness ==
  /\ pc = "done" /\ Len(oks) = 2 /\ Count(Succeeded) = 1
  /\ net[Len(net)] = Event("PATCH", [hasPhotos |-> TRUE, photoCount |-> 1])

\* C5: a run that extracted at least one image issues exactly one PATCH: never
\* a second one whatever the first one's outcome, only after the last attempt
\* of the last image (it is the last request of the run and every image has
\* been tried), and it is issued whether or not the tally reaches --min-photos.
C5_ExactlyOnePatch ==
  /\ Count(PatchEvents) <= 1
  /\ \A k \in PatchEvents :
       /\ k = Len(net)
       /\ pc = "done"
       /\ Len(oks) = Len(ordered)
       /\ \A i \in 0..(Len(ordered) - 1) :
            \E j \in PostEvents : j < k /\ net[j].arg = i
  /\ (pc = "done") => (Count(PatchEvents) = 1 /\ summary \in {"below", "meets"})
  /\ (images # <<>> /\ pc # "done") => (Uploading /\ ENABLED Next)

\* nothing uploaded, below the minimum, and the only PATCH failed
C5_Witness ==
  /\ pc = "done" /\ summary = "below" /\ success_count = 0
  /\ ~patch_ret.ok /\ Count(PatchEvents) = 1 /\ Count(PostEvents) >= 2

\* C6: when the PDF path does not exist or extraction returns no image, the
\* run stops before any network call: no POST and no PATCH.
C6_AbortBeforeNetwork ==
  (~pdf_exists \/ images = <<>>) =>
     /\ net = <<>>
     /\ pc \in {"start", "extract", "exit"}
     /\ (pc = "exit" => exit_code = 1 /\ ~ENABLED Next)

\* the PDF exists and holds no image
C6_Witness == pc = "exit" /\ pdf_exists /\ images = <<>> /\ net = <<>>

\* C7: main exits non-zero only when the PDF path is missing or no image was
\* extracted; otherwise, whatever fails in the uploads and in the patch,
\* nothing propagates and main returns 0.
C7_ExitZeroUnlessFatal ==
  /\ (exit_code \notin {0, 0 - 1}) => (pc = "exit" /\ (~pdf_exists \/ images = <<>>))
  /\ (pdf_exists /\ images # <<>>) =>
        /\ pc \in {"order", "for", "while", "sleep", "returned", "summary", "patch", "done"}
        /\ (pc = "done" => exit_code = 0)
        /\ (pc # "done" => ENABLED Next)

\* two images, an upload that failed, and a patch that raised
C7_Witness ==
  /\ pc = "done" /\ exit_code = 0 /\ Len(oks) = 2 /\ Count(Succeeded) < 2
  /\ ~patch_ret.ok /\ patch_ret.status = NoStatus

\* ----------------------------------------------------------- extract_images
\* the positions of the document, and the page-then-index order on them
DocPositions == {<<p, i>> : p \in 0..(MaxPages - 1), i \in 0..(MaxImgsPerPage - 1)}
Visited == {q \in DocPositions : q[1] < Len(doc) /\ q[2] < Len(doc[q[1] + 1])}
Before(q, r) == q[1] < r[1] \/ (q[1] = r[1] /\ q[2] < r[2])
ContentAt(q) == doc[q[1] + 1][q[2] + 1]
\* the first instance of its content
FirstInstance(q) == \A r \in Visited : Before(r, q) => ContentAt(r) # ContentAt(q)

\* C8: extract_images returns exactly one record per distinct content, that of
\* the first instance of the content in page-then-index order (its page
\* index, its in-page index, its size), in order of first encounter: no
\* first instance is dropped and no later identical instance is kept.
C8_FirstInstancesSurvive ==
  (pc = "extracted") =>
     /\ {Position(images[k]) : k \in 1..Len(images)} = {q \in Visited : FirstInstance(q)}
     /\ Len(images) = Count({ContentAt(q) : q \in Visited})
     /\ \A j, k \in 1..Len(images) :
          j < k => Before(Position(images[j]), Position(images[k]))
     /\ \A k \in 1..Len(images) :
          LET c == ContentAt(Position(images[k]))
          IN /\ images[k].width = ShapeOf(c)[1]
             /\ images[k].height = ShapeOf(c)[2]
             /\ images[k].area = ShapeOf(c)[1] * ShapeOf(c)[2]

\* a document whose second page repeats an image of the first and adds a new one
C8_Witness ==
  /\ pc = "extracted"
  /\ doc = << <<1>>, <<1, 2>> >>
  /\ Len(images) = 2
  /\ Position(images[1]) = <<0, 0>> /\ Position(images[2]) = <<1, 1>>

\* --------------------------------------------------------- order_for_upload
Landscape(img) == img.width >= img.height
SameOrientation(a, b) == Landscape(a) = Landscape(b)
\* the order C9 describes, on two records a before b
InCoverOrder(a, b) ==
  /\ Landscape(b) => Landscape(a)
  /\ SameOrientation(a, b) => a.width * a.height >= b.width * b.height
  /\ (SameOrientation(a, b) /\ a.width * a.height = b.width * b.height) =>
        a.page_index <= b.page_index
\* the images of the example: A and C are 800x600 on pages 0 and 1, B is 600x800
ExampleA == ExtractedImage(file_name(0, 0, "jpeg"), 800, 600, 0, 0)
ExampleB == ExtractedImage(file_name(0, 1, "jpeg"), 600, 800, 0, 1)
ExampleC == ExtractedImage(file_name(1, 0, "jpeg"), 800, 600, 1, 0)

\* C9: order_for_upload returns a permutation of its argument in which every
\* landscape image (width >= height, squares included) precedes every
\* portrait image, images of one orientation are in descending area, and
\* images of one orientation and area are in ascending page index; the
\* argument is left as it was and the empty list gives the empty list.
\* A (800x600), B (600x800), C (800x600, later page) come out as A, C, B.
C9_CoverOrder ==
  /\ [](pc = "sorted" =>
          /\ Len(ordered) = Len(images)
          /\ Range(ordered) = Range(images)
          /\ \A j, k \in 1..Len(ordered) : j < k => InCoverOrder(ordered[j], ordered[k])
          /\ (images = <<>> => ordered = <<>>)
          /\ (Range(images) = {ExampleA, ExampleB, ExampleC} =>
                ordered = <<ExampleA, ExampleC, ExampleB>>))
  /\ [][images' = images]_vars

\* the example, handed over as C, B, A; and a square image ahead of a portrait
C9_Witness ==
  /\ pc = "sorted"
  /\ images = <<ExampleC, ExampleB, ExampleA>>
  /\ ordered = <<ExampleA, ExampleC, ExampleB>>

C9_WitnessSquare ==
  /\ pc = "sorted"
  /\ \E j, k \in 1..Len(ordered) :
       /\ j < k
       /\ ordered[j].width = ordered[j].height
       /\ ~Landscape(ordered[k])
       /\ ordered[j].area < ordered[k].area

\* two records share orientation, area and page index
KeyTie(a, b) ==
  /\ a # b
  /\ SameOrientation(a, b)
  /\ a.width * a.height = b.width * b.height
  /\ a.page_index = b.page_index
NoKeyTies(s) == \A a, b \in Range(s) : ~KeyTie(a, b)

\* C10 as stated: two argument lists that are permutations of the same records
\* give the same output sequence, also when records share orientation, area
\* and page index.
C10_AnyPermutationSameOrder ==
  (pc = "sorted") => ordered = ordered2

\* C10 as amended: two argument lists that are permutations of the same
\* records, no two of which share orientation, area and page index, give the
\* same output sequence, hence the same cover.
C10_SameOrderWithoutTies ==
  (pc = "sorted" /\ NoKeyTies(images)) => ordered = ordered2

\* three records without a tie, handed over in two different orders
C10_Witness ==
  /\ pc = "sorted" /\ NoKeyTies(images)
  /\ Len(images) = 3 /\ shuffled # images
  /\ ordered = ordered2
  /\ \E j, k \in 1..3 : j # k /\ images[j].area = images[k].area
                        /\ SameOrientation(images[j], images[k])
\* the data of every POST of the run so far
Bodies == {sent[k].data : k \in DOMAIN sent}
\* the second run's loop is over
TrialOver == trial.mode = "replay" /\ pc = "for" /\ idx >= Len(ordered)

\* C11: two runs of the upload loop over the same ordered images and the same
\* server answers, whatever the cover-flag and ordering toggles of each, make
\* the same POSTs per image and the same sleeps in the same order, return the
\* same (success, status, error) per image and reach the same tally; with the
\* cover-flag toggle off no POST body has an isCover field, and with the
\* ordering toggle off none has an order field.
C11_TogglesOnlyShapeTheBody ==
  /\ (~use_is_cover => \A d \in Bodies : "isCover" \notin DOMAIN d)
  /\ (~use_ordering => \A d \in Bodies : "order" \notin DOMAIN d)
  /\ TrialOver =>
       LET first == trial.first[1]
       IN /\ net = first.net
          /\ trial.rets = first.rets
          /\ oks = first.oks
          /\ success_count = first.success_count
          /\ trial.cursor = Len(trial.script)
\* both runs are over, the first with both fields and the second with none,
\* after a retry, a sleep, a failed image and a successful one
C11_Witness ==
  /\ TrialOver
  /\ trial.first[1].use_is_cover /\ trial.first[1].use_ordering
  /\ ~use_is_cover /\ ~use_ordering
  /\ sent # trial.first[1].sent
  /\ oks = <<FALSE, TRUE>>
  /\ \E k \in DOMAIN net : net[k].op = "SLEEP"


\* the POSTs of the run so far, in order, as the positions they were for
IsPost(e) == e.op = "POST"
PostedPositions ==
  LET made == SelectSeq(net, IsPost) IN [k \in DOMAIN made |-> made[k].arg]
\* the sleeps of the run so far
SleepEvents == {k \in 1..Len(net) : net[k].op = "SLEEP"}

\* C12: with --retries zero or negative the retry count is 1: the run makes
\* one POST per image, in upload order, and never sleeps; each call returns
\* after its one attempt, success exactly when that attempt got a 2xx
\* response, and on failure with that attempt's error text.
C12_NonPositiveRetriesMeanOneAttempt ==
  retries <= 0 =>
    /\ pc # "sleep" /\ SleepEvents = {}
    /\ PostedPositions = [k \in 1..Len(PostedPositions) |-> k - 1]
    /\ pc \in {"while", "returned"} => max_retries = 1
    /\ pc = "returned" =>
         /\ posts = 1 /\ attempt = 1 /\ sleeps = <<>>
         /\ Len(PostedPositions) = idx + 1
         /\ ret.ok = (response.kind = "response" /\ Is2xx(response.status))
         /\ ret.ok => ret.status = response.status /\ ret.error = EmptyStr
         /\ ~ret.ok => ret.error = error /\ failed = 1
    /\ pc \in {"patch", "done"} => Len(PostedPositions) = Len(ordered)
\* --retries -1, two images, the first failed on its only attempt
C12_Witness ==
  /\ retries = 0 - 1 /\ pc = "done"
  /\ oks = <<FALSE, TRUE>>
  /\ PostedPositions = <<0, 1>>


\* the landscape records of a list
Landscapes(imgs) == {x \in Range(imgs) : Landscape(x)}
\* x is one of S and no record of S has a larger area
LargestOf(x, S) == x \in S /\ \A y \in S : x.width * x.height >= y.width * y.height

\* C13: the cover is ordered[0].  When some image is landscape (width >=
\* height) the cover is a landscape image of the largest area among the
\* landscape images, also when a portrait image is larger; when no image is
\* landscape the cover is a portrait image of the largest area.
C13_CoverIsLargestLandscape ==
  ordered # <<>> =>
    LET cover == ordered[1]
    IN IF Landscapes(images) # {}
         THEN LargestOf(cover, Landscapes(images))
         ELSE LargestOf(cover, Range(images))
\* a portrait, larger than both landscapes, is first in the list and the
\* smaller landscape second: the cover is the third
C13_Witness ==
  /\ pc = "sorted"
  /\ Len(images) = 3
  /\ ~Landscape(images[1]) /\ Landscape(images[2]) /\ Landscape(images[3])
  /\ images[1].area > images[3].area /\ images[3].area > images[2].area
  /\ ordered[1] = images[3]
\* no landscape at all: the cover is the largest portrait
C13_WitnessPortrait ==
  /\ pc = "sorted" /\ Len(images) = 2 /\ Landscapes(images) = {}
  /\ ordered[1] \in Range(images)


\* the positions 0 .. n-1
PositionsBelow(n) == 0..(n - 1)
\* the positions that got at least one POST so far
Posted == {net[k].arg : k \in PostEvents}

\* C14: the uploads are sequential and a failed image stops nothing: the
\* POSTs of the run go through the positions 0, 1, 2, ... without going back
\* and without skipping one, a call that has returned (failed or not) is
\* followed by the next image's call or, after the last image, by the summary
\* and the PATCH, and when the PATCH is due every image has had a POST.
C14_SequentialNeverAborts ==
  LET made == PostedPositions
      posted == Posted
  IN /\ \A k \in DOMAIN made :
          /\ made[k] \in PositionsBelow(Len(ordered))
          /\ k = 1 => made[k] = 0
          /\ k > 1 => made[k] \in {made[k - 1], made[k - 1] + 1}
     /\ pc \in {"while", "sleep", "returned"} =>
          /\ idx < Len(ordered)
          /\ PositionsBelow(idx) \subseteq posted /\ posted \subseteq PositionsBelow(idx + 1)
          /\ pc # "while" => idx \in posted
     /\ pc = "returned" => ENABLED MainTally
     /\ (pc = "for" /\ ordered # <<>>) =>
          /\ Len(oks) = idx /\ posted = PositionsBelow(idx)
          /\ IF idx < Len(ordered) THEN ENABLED MainCallUpload ELSE ENABLED MainSummary
     /\ pc \in {"patch", "done"} =>
          posted = PositionsBelow(Len(ordered)) /\ Len(oks) = Len(ordered)
     /\ pc = "patch" => ENABLED MainPatch
     /\ pc # "crashed"
\* the first image failed on both attempts and the second was uploaded
C14_Witness ==
  /\ pc = "done"
  /\ oks = <<FALSE, TRUE>>
  /\ PostedPositions = <<0, 0, 1>>


\* str(i) as the server reads it, for the positions of a small listing
PositionText(i) ==
  CASE i = 0 -> "0" [] i = 1 -> "1" [] i = 2 -> "2" [] i = 3 -> "3" [] i = 4 -> "4"
    [] i = 5 -> "5" [] i = 6 -> "6" [] i = 7 -> "7" [] i = 8 -> "8" [] i = 9 -> "9"
\* the files that were sent with isCover = "true"
SentAsCover ==
  {sent[k].file : k \in {j \in DOMAIN sent :
      "isCover" \in DOMAIN sent[j].data /\ sent[j].data["isCover"] = "true"}}

\* C15: with both toggles on, every POST of the image at position i of the
\* upload order, first attempt or retry, carries that image's file,
\* order = str(i) and isCover = "true" when i = 0 and "false" otherwise,
\* whatever happened to the images before it; one image only is ever sent
\* with isCover = "true".
C15_BodyCarriesPositionAndCover ==
  (use_is_cover /\ use_ordering) =>
    /\ Len(sent) = Len(PostedPositions)
    /\ \A k \in DOMAIN sent :
         LET i == PostedPositions[k]
         IN /\ sent[k].file = ordered[i + 1].path
            /\ DOMAIN sent[k].data = {"isCover", "order"}
            /\ sent[k].data["order"] = PositionText(i)
            /\ sent[k].data["isCover"] = (IF i = 0 THEN "true" ELSE "false")
    /\ Cardinality(SentAsCover) = (IF sent = <<>> THEN 0 ELSE 1)
\* the cover failed on both attempts, the second image was sent once
C15_Witness ==
  /\ use_is_cover /\ use_ordering
  /\ pc = "done"
  /\ oks = <<FALSE, TRUE>>
  /\ Len(sent) = 3
  /\ sent[2].data["isCover"] = "true" /\ sent[3].data["order"] = "1"


\* the last attempt of the current call got a response with a status in 200..299
LastAttemptGot2xx ==
  posts > 0 /\ response.kind = "response" /\ 200 <= response.status /\ response.status <= 299

\* C16: upload_photo returns success = True exactly when its last attempt got
\* a response with 200 <= status < 300: 200 and 299 succeed, 199 and 300 do
\* not, an exception never does.  A 2xx response ends the call at once: the
\* POST that got it is the last event of the call, no sleep follows it, and
\* the loop never goes on after one.
C16_SuccessIffLastAttempt2xx ==
  /\ pc = "returned" =>
       /\ ret.ok = LastAttemptGot2xx
       /\ (posts > 0 /\ response.kind = "response" /\ response.status \in {200, 299}) => ret.ok
       /\ (posts > 0 /\ response.kind = "response" /\ response.status \in {199, 300}) => ~ret.ok
       /\ response.kind # "response" => ~ret.ok
       /\ ret.ok =>
            /\ ret.status = response.status
            /\ net[Len(net)] = Event("POST", idx)
            /\ Len(sleeps) = posts - 1 /\ failed = posts - 1
            /\ ~ENABLED UploadAttempt /\ ~ENABLED UploadSleep
  /\ pc \in {"while", "sleep"} => ~LastAttemptGot2xx
\* a 300 and then a 299: one sleep, then success at the upper boundary
C16_Witness ==
  /\ pc = "returned" /\ ret.ok
  /\ ret.status = 299 /\ posts = 2 /\ sleeps = <<1>>
  /\ seen_status = 299 /\ failed = 1


\* C17: the tally after j finished uploads is the number of those j that
\* returned success = True, so it is never above j; no step of the run lowers
\* it, each step raises it by one at most, and the PATCH, whatever its
\* outcome, leaves it as it is.
C17_TallyCountsSuccesses ==
  /\ [](/\ success_count = Cardinality({j \in DOMAIN oks : oks[j]})
        /\ success_count <= Len(oks)
        /\ Len(oks) <= Len(ordered))
  /\ [][/\ success_count' >= success_count
        /\ success_count' <= success_count + 1
        /\ Len(oks') >= Len(oks)
        /\ pc = "returned" => Len(oks') = Len(oks) + 1
        /\ pc = "returned" => success_count' = success_count + (IF ret.ok THEN 1 ELSE 0)
        /\ pc = "patch" => success_count' = success_count /\ oks' = oks]_vars
\* one success, one failure, and a PATCH that failed
C17_Witness ==
  /\ pc = "done"
  /\ oks = <<TRUE, FALSE>> /\ success_count = 1
  /\ ~patch_ret.ok


\* the names in the output directory, and the paths of the kept records
FileNames == {f[1] : f \in files}
KeptPaths == {images[k].path : k \in DOMAIN images}

\* C18: after every pass of the loops of extract_images the files in the
\* output directory are exactly the files of the kept records: each kept
\* record's path names a file holding the bytes of the image at that
\* record's page and in-page index, no two kept records share a path or a
\* hash, seen_hashes holds the hashes of the kept records, and no pass,
\* deleting a duplicate or not, removes or rewrites the file of a record kept
\* before.
C18_FilesAreKeptRecords ==
  /\ [](/\ FileNames = KeptPaths
        /\ Cardinality(files) = Len(images)
        /\ \A k \in DOMAIN images :
             /\ <<images[k].path, ContentAt(Position(images[k]))>> \in files
             /\ images[k].path = file_name(images[k].page_index, images[k].img_index, "jpeg")
        /\ \A j, k \in DOMAIN images :
             j # k => /\ images[j].path # images[k].path
                      /\ hash_file(ReadBytes(files, images[j].path))
                           # hash_file(ReadBytes(files, images[k].path))
        /\ seen_hashes = {hash_file(ReadBytes(files, p)) : p \in KeptPaths})
  /\ [][\A k \in DOMAIN images :
          /\ k \in DOMAIN images' /\ images'[k] = images[k]
          /\ \A f \in files : f[1] = images[k].path => f \in files']_vars
\* two images kept, and a copy of the first one, met on the same page, deleted
C18_Witness ==
  /\ pc = "extracted"
  /\ Len(images) = 2
  /\ Len(doc) = 2 /\ Len(doc[1]) = 2 /\ doc[1][1] = doc[1][2]
  /\ Cardinality(Visited) > Len(images)


\* the coerced retry count of the run
RetryCount == IF retries >= 1 THEN retries ELSE 1
\* main is over: it returned 0 or raised SystemExit
Over == pc \in {"done", "exit"}
\* the most steps any run can still take from "for" with no image uploaded
Ceiling == MainPages * MainImgsPerPage * (2 * MaxRetries + 1) + 2
\* the steps the run can still take: per image the call, N attempts, N - 1
\* sleeps and the tally, then the summary and the PATCH
StepsLeft ==
  LET N == RetryCount
      later == (Len(ordered) - idx - 1) * (2 * N + 1)
  IN CASE pc = "start" -> Ceiling + 3
       [] pc = "extract" -> Ceiling + 2
       [] pc = "order" -> Ceiling + 1
       [] pc = "for" -> (Len(ordered) - idx) * (2 * N + 1) + 2
       [] pc = "while" -> later + 2 * (N - attempt) + 2
       [] pc = "sleep" -> later + 2 * (N - attempt) + 3
       [] pc = "returned" -> later + 3
       [] pc = "patch" -> 1
       [] OTHER -> 0

\* C19: every run of main ends: each step lowers a count of the steps left
\* that is never negative, and a step is possible until main has returned or
\* exited.  A run that extracted n >= 1 images with the coerced retry count N
\* has at every moment made at most n * N POSTs, n * (N - 1) sleeps and one
\* PATCH, and when it returns it has made at least n POSTs and exactly one
\* PATCH.
C19_RunEndsWithinBounds ==
  /\ [](/\ StepsLeft >= 0
        /\ ~Over => ENABLED Next
        /\ ordered # <<>> =>
             /\ Count(PostEvents) <= Len(ordered) * RetryCount
             /\ Count(SleepEvents) <= Len(ordered) * (RetryCount - 1)
             /\ Count(PatchEvents) <= 1
             /\ pc = "done" => Count(PostEvents) >= Len(ordered) /\ Count(PatchEvents) = 1)
  /\ [][StepsLeft' < StepsLeft]_vars
\* C19, the end of the run alone, under FairSpec
C19_RunEnds == <>Over
\* two images, two attempts each, all failed: n * N POSTs and n * (N - 1) sleeps
C19_Witness ==
  /\ pc = "done"
  /\ Len(ordered) = 2 /\ retries = 2
  /\ Count(PostEvents) = 4 /\ Count(SleepEvents) = 2 /\ Count(PatchEvents) = 1


\* the value of the return after the loop
FellThrough == ret = Result(FALSE, NoStatus, UnreachableStr)

\* C20: the return after the while loop, (False, 0, "unreachable"), is
\* reached by no call with max_retries >= 1, so by no call main makes; it is
\* reached by every call with max_retries <= 0, which makes no POST and no
\* sleep.
C20_FallThroughOnlyWithoutAttempts ==
  /\ ret.error = UnreachableStr =>
       /\ pc = "returned" /\ FellThrough
       /\ max_retries <= 0
       /\ posts = 0 /\ attempt = 0 /\ sleeps = <<>> /\ failed = 0
  /\ (pc = "returned" /\ max_retries <= 0) => FellThrough
  /\ (pc = "returned" /\ max_retries >= 1) => ~FellThrough /\ posts >= 1
  /\ pc \in {"while", "sleep", "returned"} /\ max_retries <= 0 => net = <<>> /\ sent = <<>>
\* upload_photo(..., max_retries=0) has returned
C20_Witness ==
  /\ pc = "returned" /\ max_retries = 0
  /\ FellThrough
  /\ net = <<>>
\* C20, for main: no call of a run of main falls through
C20_NeverInMain == ret.error # UnreachableStr /\ (pc \in {"while", "sleep", "returned"} => max_retries >= 1)

====
